---- MODULE Spec2Model ----
(***************************************************************************)
(* Scene normalization and animation scripts of cello/ (falling.py,        *)
(* follow.py, pulling.py).  Every script imports ECS and cell meshes,      *)
(* normalizes the scene on the bounding box of the ECS objects (step 6),   *)
(* and then moves, configures and bakes the objects.                       *)
(*                                                                         *)
(* Python floats are modelled as exact fractions n/d in lowest terms; the  *)
(* float specials are the fractions with d = 0: 1/0 is inf, -1/0 is -inf   *)
(* and 0/0 is nan.  Rounding is not modelled.                              *)
(***************************************************************************)
EXTENDS Integers, Sequences, FiniteSets, TLC

VARIABLES
    script,         \* "falling" | "follow" | "pulling": the script that runs
    objects,        \* the mesh objects of bpy.data.objects:
                    \* id -> [location, scale, bound_box]
    all_objects,    \* list of ids
    ecs_objects,    \* list of ids
    cell_objects,   \* list of ids
    pc,             \* position in the script
    i,              \* index of the running for loop
    ecs_min,        \* <<ecs_min_x, ecs_min_y, ecs_min_z>>
    ecs_max,        \* <<ecs_max_x, ecs_max_y, ecs_max_z>>
    scaling_factor,
    ecs_center,     \* <<ecs_center_x, ecs_center_y, ecs_center_z>>
    bound,          \* names the script has assigned so far
    active,         \* bpy.context.view_layer.objects.active (0: none)
    modifiers,      \* id -> list of the names of obj.modifiers
    point_cache,    \* id -> [frame_start, frame_end] of the soft-body cache
    keyframes,      \* set of [id, data_path, frame, value]
    curves,         \* list of the two-point paths made by follow.py
    constraints,    \* id -> list of [type, target, offset_factor]
    scene,          \* [frame_start, frame_end, frame_current]
    ops,            \* the bpy.ops.ptcache calls made so far, oldest first
    snap            \* history: objects at the start of each application of
                    \* step 6, oldest first

lists == <<all_objects, ecs_objects, cell_objects>>

step6_vars == <<ecs_min, ecs_max, scaling_factor, ecs_center, bound, snap>>

\* what only the steps after step 6 (and the set-up before step 4) touch
later_vars == <<script, active, modifiers, point_cache, keyframes, curves,
                constraints, scene, ops>>

vars == <<objects, lists, pc, i, step6_vars, later_vars>>

(***************************************************************************)
(* Bounds of the model.                                                    *)
(***************************************************************************)
MaxEcs == 2
MaxCells == 1
\* entries of the cell directory a script run lists
MaxCellFiles == 2

(***************************************************************************)
(* Float arithmetic.                                                       *)
(***************************************************************************)
Abs(n) == IF n < 0 THEN -n ELSE n

Sign(n) == IF n < 0 THEN -1 ELSE IF n > 0 THEN 1 ELSE 0

RECURSIVE GCD(_, _)
GCD(a, b) == IF b = 0 THEN a ELSE GCD(b, a % b)

Frac(n, d) ==
    IF d = 0 THEN [n |-> Sign(n), d |-> 0]
    ELSE LET g == GCD(Abs(n), Abs(d))
         IN  [n |-> (Sign(d) * n) \div g, d |-> Abs(d) \div g]

Num(k) == [n |-> k, d |-> 1]
Zero == Num(0)
One == Num(1)
Two == Num(2)
Inf == [n |-> 1, d |-> 0]
NegInf == [n |-> -1, d |-> 0]
NaN == [n |-> 0, d |-> 0]

IsNaN(a) == a.n = 0 /\ a.d = 0

Neg(a) == [n |-> -a.n, d |-> a.d]

Add(a, b) ==
    IF IsNaN(a) \/ IsNaN(b) THEN NaN
    ELSE IF a.d = 0 /\ b.d = 0 THEN (IF a.n = b.n THEN a ELSE NaN)
    ELSE IF a.d = 0 THEN a
    ELSE IF b.d = 0 THEN b
    ELSE Frac(a.n * b.d + b.n * a.d, a.d * b.d)

Sub(a, b) == Add(a, Neg(b))

Mul(a, b) == Frac(a.n * b.n, a.d * b.d)

\* a / b for b # 0 (Python raises ZeroDivisionError for b = 0)
Div(a, b) == Frac(a.n * b.d, a.d * b.n)

Lt(a, b) ==
    IF IsNaN(a) \/ IsNaN(b) THEN FALSE
    ELSE IF a.d = 0 /\ b.d = 0 THEN a.n < b.n
    ELSE a.n * b.d < b.n * a.d

\* Python's min(a, b) and max(a, b): the first argument unless the second beats it
Min2(a, b) == IF Lt(b, a) THEN b ELSE a
Max2(a, b) == IF Lt(a, b) THEN b ELSE a
Min3(a, b, c) == Min2(Min2(a, b), c)

Axes == 1..3
Vec(x, y, z) == <<Num(x), Num(y), Num(z)>>
ZeroVec == Vec(0, 0, 0)
VSub(u, v) == [a \in Axes |-> Sub(u[a], v[a])]
VScale(u, k) == [a \in Axes |-> Mul(u[a], k)]

(***************************************************************************)
(* Objects.  bound_box is the eight corners of the local-space box, in the *)
(* host's corner order; matrix_world places a local point at               *)
(* location + scale * point on every axis (objects carry no rotation once  *)
(* their transforms are applied).  matrix_world is the matrix the host     *)
(* last evaluated: assigning obj.scale or obj.location leaves it as it was *)
(* until the view layer is updated (view_layer.update(), a frame change,   *)
(* or a bpy.ops call).  The effect of a constraint on the matrix is not    *)
(* modelled: no script reads the matrix of a constrained object.           *)
(***************************************************************************)
Box(lo, hi) ==
    << <<lo[1], lo[2], lo[3]>>, <<lo[1], lo[2], hi[3]>>,
       <<lo[1], hi[2], hi[3]>>, <<lo[1], hi[2], lo[3]>>,
       <<hi[1], lo[2], lo[3]>>, <<hi[1], lo[2], hi[3]>>,
       <<hi[1], hi[2], hi[3]>>, <<hi[1], hi[2], lo[3]>> >>

Object(loc, scl, bb) ==
    [location |-> loc, scale |-> scl, bound_box |-> bb,
     matrix_world |-> [location |-> loc, scale |-> scl]]

matrix_world(obj, vertex) ==
    [a \in Axes |-> Add(obj.matrix_world.location[a],
                        Mul(obj.matrix_world.scale[a], vertex[a]))]

\* the host evaluates the scene: every matrix_world follows its object
view_layer_update(objs) ==
    [id \in DOMAIN objs |->
        [objs[id] EXCEPT !.matrix_world =
            [location |-> objs[id].location, scale |-> objs[id].scale]]]

\* the meshes of the model: their local bounding boxes
Box248 == Box(Vec(0, 0, 0), Vec(2, 4, 8))
Cube == Box(Vec(-1, -1, -1), Vec(1, 1, 1))
Flat == Box(Vec(0, 0, 0), Vec(4, 2, 0))
Slab == Box(Vec(-2, 0, 1), Vec(1, 1, 3))

(***************************************************************************)
(* Step 6: the bounding box of the ECS objects, the scaling factor, the    *)
(* rescaling of all objects and the shift that centres the ECS box.        *)
(***************************************************************************)
Extent(mn, mx) == [min |-> mn, max |-> mx]

EmptyExtent == Extent(<<Inf, Inf, Inf>>, <<NegInf, NegInf, NegInf>>)

\* one pass of the inner loop: fold a world-space vertex into the min/max
FoldVertex(ext, world_vertex) ==
    Extent([a \in Axes |-> Min2(ext.min[a], world_vertex[a])],
           [a \in Axes |-> Max2(ext.max[a], world_vertex[a])])

\* for vertex in obj.bound_box, from the k-th corner on
RECURSIVE FoldBoundBox(_, _, _)
FoldBoundBox(ext, obj, k) ==
    IF k > Len(obj.bound_box) THEN ext
    ELSE FoldBoundBox(FoldVertex(ext, matrix_world(obj, obj.bound_box[k])),
                      obj, k + 1)

\* the ECS group of a scene, as the list of its objects' records
Group(objs) == [k \in 1..Len(ecs_objects) |-> objs[ecs_objects[k]]]

\* the world-space bounding box of a group, walked object by object
RECURSIVE WalkGroup(_, _, _)
WalkGroup(ext, group, k) ==
    IF k > Len(group) THEN ext
    ELSE WalkGroup(FoldBoundBox(ext, group[k], 1), group, k + 1)

BoundingBox(group) == WalkGroup(EmptyExtent, group, 1)

Midpoint(ext) == [a \in Axes |-> Div(Add(ext.min[a], ext.max[a]), Two)]

ecs_size(ext) == VSub(ext.max, ext.min)

\* mutant: the largest size taken for the smallest
max_dimension(ext) ==
    LET size == ecs_size(ext)
    IN  Max2(Max2(size[1], size[2]), size[3])

min_dimension(ext) ==
    LET size == ecs_size(ext) IN Min3(size[1], size[2], size[3])

\* mutant: "if min_dimension >= 0"
DimensionIsNotNegative(m) == ~Lt(m, Zero)

\* if min_dimension > 0
DimensionIsPositive(m) == Lt(Zero, m)

\* scaling_factor = 1.0; if min_dimension > 0: scaling_factor = 1.0 / min_dimension
ScalingFactor(m) == IF DimensionIsPositive(m) THEN Div(One, m) ELSE One

\* mutant: the centre without "* scaling_factor"
CenterUnscaled(ext, factor) == Midpoint(ext)

\* mutant: the centre taken from a second walk over the rescaled objects
CenterRewalked(ext, factor) == Midpoint(BoundingBox(Group(objects)))

\* (ecs_min + ecs_max) / 2 * scaling_factor on every axis
Center(ext, factor) ==
    [a \in Axes |-> Mul(Div(Add(ext.min[a], ext.max[a]), Two), factor)]

\* mutant: step 6 without its "if ecs_objects:"
HasEcsUnguarded == TRUE

\* if ecs_objects:
HasEcs == ecs_objects # <<>>

\* mutant: the extent loop walking all_objects
ExtentListAll == all_objects

\* mutant: the rescale loop walking ecs_objects
RescaleListEcs == ecs_objects

\* mutant: the shift loop walking ecs_objects
ShiftListEcs == ecs_objects

\* the lists the three loops walk
ExtentList == ecs_objects
RescaleList == all_objects
ShiftList == all_objects

Step6 ==
    /\ pc = "step6"
    /\ snap' = Append(snap, objects)
    /\ IF HasEcs
       THEN /\ ecs_min' = EmptyExtent.min
            /\ ecs_max' = EmptyExtent.max
            /\ bound' = bound \cup {"ecs_min", "ecs_max"}
            /\ pc' = "extent"
            /\ i' = 1
       ELSE /\ pc' = "step7"
            /\ i' = 1
            /\ UNCHANGED <<ecs_min, ecs_max, bound>>
    /\ UNCHANGED <<objects, all_objects, ecs_objects, cell_objects,
                   scaling_factor, ecs_center,
                   later_vars>>

\* one pass of "for obj in ecs_objects": all eight corners of one object
ReadBoundBox ==
    /\ pc = "extent"
    /\ i <= Len(ExtentList)
    /\ LET ext == FoldBoundBox(Extent(ecs_min, ecs_max),
                               objects[ExtentList[i]], 1)
       IN  /\ ecs_min' = ext.min
           /\ ecs_max' = ext.max
    /\ i' = i + 1
    /\ UNCHANGED <<objects, all_objects, ecs_objects, cell_objects, pc,
                   scaling_factor, ecs_center, bound, snap,
                   later_vars>>

ComputeScalingFactor ==
    /\ pc = "extent"
    /\ i > Len(ExtentList)
    /\ LET m == min_dimension(Extent(ecs_min, ecs_max))
       IN  IF DimensionIsPositive(m) /\ m.n = 0
           THEN \* 1.0 / 0.0 raises; scaling_factor keeps the 1.0 assigned before
                /\ pc' = "ZeroDivisionError"
                /\ scaling_factor' = One
           ELSE /\ pc' = "rescale"
                /\ scaling_factor' = ScalingFactor(m)
    /\ bound' = bound \cup {"scaling_factor"}
    /\ i' = 1
    /\ UNCHANGED <<objects, all_objects, ecs_objects, cell_objects, ecs_min,
                   ecs_max, ecs_center, snap,
                   later_vars>>

\* one pass of "for obj in all_objects: obj.scale *= scaling_factor"
Rescale ==
    /\ pc = "rescale"
    /\ i <= Len(RescaleList)
    /\ objects' = [objects EXCEPT ![RescaleList[i]].scale =
                                      VScale(@, scaling_factor)]
    /\ i' = i + 1
    /\ UNCHANGED <<all_objects, ecs_objects, cell_objects, pc, ecs_min,
                   ecs_max, scaling_factor, ecs_center, bound, snap,
                   later_vars>>

ComputeCenter ==
    /\ pc = "rescale"
    /\ i > Len(RescaleList)
    /\ ecs_center' = Center(Extent(ecs_min, ecs_max), scaling_factor)
    /\ bound' = bound \cup {"ecs_center"}
    /\ pc' = "shift"
    /\ i' = 1
    /\ UNCHANGED <<objects, all_objects, ecs_objects, cell_objects, ecs_min,
                   ecs_max, scaling_factor, snap,
                   later_vars>>

\* one pass of "for obj in all_objects: obj.location -= ecs_center"
Shift ==
    /\ pc = "shift"
    /\ i <= Len(ShiftList)
    /\ objects' = [objects EXCEPT ![ShiftList[i]].location =
                                      VSub(@, ecs_center)]
    /\ i' = IF i = Len(ShiftList) THEN 1 ELSE i + 1
    /\ pc' = IF i = Len(ShiftList) THEN "step7" ELSE "shift"
    /\ UNCHANGED <<all_objects, ecs_objects, cell_objects, ecs_min, ecs_max,
                   scaling_factor, ecs_center, bound, snap,
                   later_vars>>

(***************************************************************************)
(* The scripts.  The state after steps 0-3: the scene is empty (falling.py *)
(* has made its collision plane), the three lists are empty.  Lights,      *)
(* materials and render settings are left out.                             *)
(***************************************************************************)
Scripts == {"falling", "follow", "pulling"}

Plane == Object(ZeroVec, Vec(1, 1, 1), Box(Vec(-5, -5, 0), Vec(5, 5, 0)))

\* the meshes the .ply files of the two directories may hold
EcsMeshes == {Box248, Flat}
CellMeshes == {Cube, Slab}

Init ==
    /\ script \in Scripts
    /\ objects = IF script = "falling" THEN <<Plane>> ELSE <<>>
    /\ modifiers = IF script = "falling" THEN << <<"Collision">> >> ELSE <<>>
    /\ constraints = IF script = "falling" THEN << <<>> >> ELSE <<>>
    /\ active = IF script = "falling" THEN 1 ELSE 0
    /\ all_objects = <<>>
    /\ ecs_objects = <<>>
    /\ cell_objects = <<>>
    /\ pc = "step4"
    /\ i = 0
    /\ ecs_min = ZeroVec
    /\ ecs_max = ZeroVec
    /\ scaling_factor = One
    /\ ecs_center = ZeroVec
    /\ bound = {}
    /\ point_cache = <<>>
    /\ keyframes = {}
    /\ curves = <<>>
    /\ scene = [frame_start |-> 1, frame_end |-> 250, frame_current |-> 1]
    /\ ops = <<>>
    /\ snap = <<>>

\* ply_import, then transform_apply(location, rotation, scale): the new
\* object carries the mesh with zero location and unit scale
Imported(mesh) == Object(ZeroVec, Vec(1, 1, 1), mesh)

\* steps 4 and 5, one directory entry ending in ".ply"
Step4Import ==
    /\ pc = "step4"
    /\ i < MaxEcs
    /\ \E mesh \in EcsMeshes :
         objects' = Append(objects, Imported(mesh))
    /\ all_objects' = Append(all_objects, Len(objects) + 1)
    /\ ecs_objects' = Append(ecs_objects, Len(objects) + 1)
    /\ active' = Len(objects) + 1
    /\ modifiers' = Append(modifiers, <<>>)
    /\ constraints' = Append(constraints, <<>>)
    /\ i' = i + 1
    /\ UNCHANGED <<cell_objects, pc, step6_vars, script, point_cache,
                   keyframes, curves, scene, ops>>

\* mutant: a cell import that forgets all_objects.append(obj)
Step5ImportForgetful ==
    /\ pc = "step5"
    /\ i < MaxCellFiles
    /\ \E mesh \in CellMeshes :
         objects' = Append(objects, Imported(mesh))
    /\ cell_objects' = Append(cell_objects, Len(objects) + 1)
    /\ active' = Len(objects) + 1
    /\ modifiers' = Append(modifiers, <<>>)
    /\ constraints' = Append(constraints, <<>>)
    /\ i' = i + 1
    /\ UNCHANGED <<all_objects, ecs_objects, pc, step6_vars, script,
                   point_cache, keyframes, curves, scene, ops>>

Step5Import ==
    /\ pc = "step5"
    /\ i < MaxCellFiles
    /\ \E mesh \in CellMeshes :
         objects' = Append(objects, Imported(mesh))
    /\ all_objects' = Append(all_objects, Len(objects) + 1)
    /\ cell_objects' = Append(cell_objects, Len(objects) + 1)
    /\ active' = Len(objects) + 1
    /\ modifiers' = Append(modifiers, <<>>)
    /\ constraints' = Append(constraints, <<>>)
    /\ i' = i + 1
    /\ UNCHANGED <<ecs_objects, pc, step6_vars, script, point_cache,
                   keyframes, curves, scene, ops>>

\* a directory entry that does not end in ".ply"
SkipFile ==
    /\ pc \in {"step4", "step5"}
    /\ i < (IF pc = "step4" THEN MaxEcs ELSE MaxCellFiles)
    /\ i' = i + 1
    /\ UNCHANGED <<objects, lists, pc, step6_vars, later_vars>>

\* os.listdir is exhausted
EndOfListing ==
    /\ pc \in {"step4", "step5"}
    /\ pc' = IF pc = "step4" THEN "step5" ELSE "step6"
    /\ i' = 0
    /\ UNCHANGED <<objects, lists, step6_vars, later_vars>>

(***************************************************************************)
(* Steps 7-10.                                                             *)
(***************************************************************************)
\* (random.uniform(-2, 2), random.uniform(-2, 2), random.uniform(1, 2)):
\* the corners of the range and a point inside it
Draws == {Vec(-2, -2, 1), Vec(2, 2, 2), <<Zero, Num(1), Frac(3, 2)>>}

\* mutant: step 7 of falling.py moving each object by the draw
RandomizeRelative ==
    /\ pc = "step7"
    /\ script = "falling"
    /\ i <= Len(all_objects)
    /\ \E draw \in Draws :
         objects' = [objects EXCEPT ![all_objects[i]].location =
                        [a \in Axes |-> Add(@[a], draw[a])]]
    /\ i' = i + 1
    /\ UNCHANGED <<lists, pc, step6_vars, later_vars>>

\* falling.py step 7, one pass of "for obj in all_objects"
Randomize ==
    /\ pc = "step7"
    /\ script = "falling"
    /\ i <= Len(all_objects)
    /\ \E draw \in Draws :
         objects' = [objects EXCEPT ![all_objects[i]].location = draw]
    /\ i' = i + 1
    /\ UNCHANGED <<lists, pc, step6_vars, later_vars>>

\* the location keys of an object, and the location its animation gives it
\* at a frame: the key at that frame, else the last key before it, else the
\* first key (the scripts set frames only where this is exact)
LocationKeys(keys, id) ==
    {k \in keys : k.id = id /\ k.data_path = "location"}

Evaluated(keys, id, frame) ==
    LET mine == LocationKeys(keys, id)
        before == {k \in mine : k.frame <= frame}
        from == IF before # {} THEN before ELSE mine
        pick == CHOOSE k \in from :
                    \A other \in from :
                        IF before # {} THEN other.frame <= k.frame
                        ELSE k.frame <= other.frame
    IN  pick.value

\* bpy.context.scene.frame_set(frame): animated locations are re-evaluated,
\* then the matrices
frame_set(objs, keys, frame) ==
    view_layer_update(
        [id \in DOMAIN objs |->
            IF LocationKeys(keys, id) = {} THEN objs[id]
            ELSE [objs[id] EXCEPT !.location = Evaluated(keys, id, frame)]])

\* obj.keyframe_insert: a key at a frame that has one replaces it
keyframe_insert(keys, id, path, frame, value) ==
    {k \in keys : ~(k.id = id /\ k.data_path = path /\ k.frame = frame)}
        \cup {[id |-> id, data_path |-> path, frame |-> frame,
               value |-> value]}

\* frames = 240 (follow.py); frame_set(200) (pulling.py)
frames == 240
PullKeyFrame == 200

\* mutant: step 7 of pulling.py without its frame_set(200)
KeyframeWithoutFrameSet ==
    /\ pc = "step7"
    /\ script = "pulling"
    /\ i <= Len(cell_objects)
    /\ LET id == cell_objects[i]
           original_location == objects[id].location
           at1 == [frame_set(objects, keyframes, 1)
                       EXCEPT ![id].location = original_location]
           keys1 == keyframe_insert(keyframes, id, "location", 1,
                                    original_location)
           at200 == [at1
                       EXCEPT ![id].location =
                           <<Mul(original_location[1], Num(10)),
                             Mul(original_location[2], Num(10)),
                             original_location[3]>>]
       IN  /\ objects' = at200
           /\ keyframes' = keyframe_insert(keys1, id, "location", 1,
                                           at200[id].location)
    /\ scene' = [scene EXCEPT !.frame_current = 1]
    /\ i' = i + 1
    /\ UNCHANGED <<lists, pc, step6_vars, script, active, modifiers,
                   point_cache, curves, constraints, ops>>

\* pulling.py step 7, one pass of "for obj in cell_objects"
Keyframe ==
    /\ pc = "step7"
    /\ script = "pulling"
    /\ i <= Len(cell_objects)
    /\ LET id == cell_objects[i]
           original_location == objects[id].location
           at1 == [frame_set(objects, keyframes, 1)
                       EXCEPT ![id].location = original_location]
           keys1 == keyframe_insert(keyframes, id, "location", 1,
                                    original_location)
           at200 == [frame_set(at1, keys1, PullKeyFrame)
                       EXCEPT ![id].location =
                           <<Mul(original_location[1], Num(10)),
                             Mul(original_location[2], Num(10)),
                             original_location[3]>>]
       IN  /\ objects' = at200
           /\ keyframes' = keyframe_insert(keys1, id, "location", PullKeyFrame,
                                           at200[id].location)
    /\ scene' = [scene EXCEPT !.frame_current = PullKeyFrame]
    /\ i' = i + 1
    /\ UNCHANGED <<lists, pc, step6_vars, script, active, modifiers,
                   point_cache, curves, constraints, ops>>

\* get_vertex_center(obj): the mean of the mesh's vertices in world space
\* (the mesh of the model is its box: its vertices are the eight corners)
RECURSIVE VertexSum(_, _)
VertexSum(obj, k) ==
    IF k = 0 THEN <<Zero, Zero, Zero>>
    ELSE LET rest == VertexSum(obj, k - 1)
             world_vert == matrix_world(obj, obj.bound_box[k])
         IN  [a \in Axes |-> Add(rest[a], world_vert[a])]

get_vertex_center(obj) ==
    LET num_vertices == Len(obj.bound_box)
    IN  [a \in Axes |-> Div(VertexSum(obj, num_vertices)[a],
                            Num(num_vertices))]

\* follow.py step 7, one pass of "for i, obj in enumerate(cell_objects)"
FollowPath ==
    /\ pc = "step7"
    /\ script = "follow"
    /\ i <= Len(cell_objects)
    /\ LET id == cell_objects[i]
           true_center == get_vertex_center(objects[id])
       IN  /\ curves' = Append(curves,
                   << <<Zero, Zero, Zero>>,
                      <<Mul(true_center[1], Two), Mul(true_center[2], Two),
                        Zero>> >>)
           /\ constraints' = [constraints EXCEPT ![id] = Append(@,
                   [type |-> "FOLLOW_PATH", target |-> Len(curves) + 1,
                    use_fixed_location |-> TRUE, offset_factor |-> One])]
           /\ keyframes' =
                  keyframe_insert(
                      keyframe_insert(keyframes, id, "offset_factor", 1, Zero),
                      id, "offset_factor", frames, One)
    /\ objects' = view_layer_update(objects)
    /\ scene' = [scene EXCEPT !.frame_current = frames]
    /\ i' = i + 1
    /\ UNCHANGED <<lists, pc, step6_vars, script, active, modifiers,
                   point_cache, ops>>

\* bpy.ops.object.modifier_add(type=...) on the active object
modifier_add(mods, id, name) == [mods EXCEPT ![id] = Append(@, name)]

HasModifier(mods, id, name) == \E k \in 1..Len(mods[id]) : mods[id][k] = name

\* follow.py and pulling.py step 8, one pass of "for obj in ecs_objects"
EcsCollision ==
    /\ pc = "step8"
    /\ script # "falling"
    /\ i <= Len(ecs_objects)
    /\ active' = ecs_objects[i]
    /\ modifiers' = modifier_add(modifiers, ecs_objects[i], "Collision")
    /\ objects' = view_layer_update(objects)
    /\ i' = i + 1
    /\ UNCHANGED <<lists, pc, step6_vars, script, point_cache,
                   keyframes, curves, constraints, scene, ops>>

\* the loop that makes soft bodies: step 8 of falling.py over all_objects,
\* step 9 of follow.py and pulling.py over cell_objects
SoftBodyStep == IF script = "falling" THEN "step8" ELSE "step9"
\* mutant: the soft body loop of falling.py copied into the other scripts
SoftBodyListAll == all_objects

SoftBodyList == IF script = "falling" THEN all_objects ELSE cell_objects

SoftBody ==
    /\ pc = SoftBodyStep
    /\ i <= Len(SoftBodyList)
    /\ active' = SoftBodyList[i]
    /\ modifiers' = modifier_add(modifiers, SoftBodyList[i], "Softbody")
    /\ point_cache' = (SoftBodyList[i] :> [frame_start |-> 1,
                                           frame_end |-> 250]) @@ point_cache
    /\ objects' = view_layer_update(objects)
    /\ i' = i + 1
    /\ UNCHANGED <<lists, pc, step6_vars, script, keyframes, curves,
                   constraints, scene, ops>>

\* the list the loop at pc walks, and the step after the loop
LoopSteps == {"step7", "step8", "step9", "cache"}

LoopList ==
    IF script = "falling" THEN all_objects
    ELSE IF pc = "step8" THEN ecs_objects
    ELSE cell_objects

AfterLoop ==
    IF pc = "step7" THEN "step8"
    ELSE IF pc = "step8" THEN (IF script = "falling" THEN "frames"
                               ELSE "step9")
    ELSE IF pc = "step9" THEN "frames"
    ELSE "bake"

LoopEnd ==
    /\ pc \in LoopSteps
    /\ i > Len(LoopList)
    /\ objects' = IF script = "follow" /\ pc = "step7"
                   THEN view_layer_update(objects)
                   ELSE objects
    /\ pc' = AfterLoop
    /\ i' = 1
    /\ UNCHANGED <<lists, step6_vars, later_vars>>

\* scene.frame_end of falling.py and of pulling.py
FallFrameEnd == 100
PullFrameEnd == 200

\* mutant: the frame range of falling.py copied into the other scripts
frame_end_copied == FallFrameEnd

frame_end == IF script = "falling" THEN FallFrameEnd
             ELSE IF script = "follow" THEN frames
             ELSE PullFrameEnd

\* scene.frame_start = 1; scene.frame_end = ...
SceneFrames ==
    /\ pc = "frames"
    /\ scene' = [scene EXCEPT !.frame_start = 1, !.frame_end = frame_end]
    /\ pc' = "free_bake"
    /\ UNCHANGED <<objects, lists, i, step6_vars, script, active, modifiers,
                   point_cache, keyframes, curves, constraints, ops>>

\* bpy.ops.ptcache.free_bake_all()
FreeBakeAll ==
    /\ pc = "free_bake"
    /\ ops' = Append(ops, "free_bake_all")
    /\ objects' = view_layer_update(objects)
    /\ pc' = "cache"
    /\ i' = 1
    /\ UNCHANGED <<lists, step6_vars, script, active, modifiers,
                   point_cache, keyframes, curves, constraints, scene>>

\* one pass of the loop that aligns the point caches with the scene frames;
\* falling.py tests for the modifier, the other two look it up
AlignCache ==
    /\ pc = "cache"
    /\ i <= Len(LoopList)
    /\ IF HasModifier(modifiers, LoopList[i], "Softbody")
       THEN /\ point_cache' =
                   [point_cache EXCEPT ![LoopList[i]] =
                       [frame_start |-> scene.frame_start,
                        frame_end |-> scene.frame_end]]
            /\ pc' = pc
       ELSE /\ pc' = IF script = "falling" THEN pc ELSE "KeyError"
            /\ UNCHANGED point_cache
    /\ i' = i + 1
    /\ UNCHANGED <<objects, lists, step6_vars, script, active, modifiers,
                   keyframes, curves, constraints, scene, ops>>

\* bpy.ops.ptcache.bake_all()
BakeAll ==
    /\ pc = "bake"
    /\ ops' = Append(ops, "bake_all")
    /\ objects' = view_layer_update(objects)
    /\ pc' = "end"
    /\ UNCHANGED <<lists, i, step6_vars, script, active, modifiers,
                   point_cache, keyframes, curves, constraints, scene>>

Next ==
    \/ Step4Import
    \/ Step5Import
    \/ SkipFile
    \/ EndOfListing
    \/ Step6
    \/ ReadBoundBox
    \/ ComputeScalingFactor
    \/ Rescale
    \/ ComputeCenter
    \/ Shift
    \/ Randomize
    \/ Keyframe
    \/ FollowPath
    \/ EcsCollision
    \/ SoftBody
    \/ LoopEnd
    \/ SceneFrames
    \/ FreeBakeAll
    \/ AlignCache
    \/ BakeAll

Spec == Init /\ [][Next]_vars

(***************************************************************************)
(* The normalization routine on its own: step 6 applied, once and then a   *)
(* second time, to groups drawn from bounded sets of boxes and prior       *)
(* transforms.  Between the two applications the host may or may not have  *)
(* evaluated the scene.                                                    *)
(***************************************************************************)
Boxes == {Box248, Cube, Flat, Slab}

Identity == [location |-> ZeroVec, scale |-> Vec(1, 1, 1)]
Moved == [location |-> Vec(3, 0, -1), scale |-> Vec(1, 1, 1)]
Scaled == [location |-> ZeroVec, scale |-> Vec(2, 2, 2)]

Placed == [location |-> Vec(3, 0, -1), scale |-> Vec(2, 2, 2)]

Given(t, b) == Object(t.location, t.scale, b)

\* every box as the scripts leave it after transform_apply, and boxes with
\* a prior translation or a prior scale
EcsInputs ==
    {Given(Identity, b) : b \in Boxes}
        \cup {Given(Moved, Cube), Given(Moved, Flat), Given(Scaled, Box248)}

CellInputs == {Given(Identity, Cube), Given(Placed, Cube)}

Ids(from, n) == [k \in 1..n |-> from + k]

InitNormalize ==
    /\ \E nE \in 0..MaxEcs, nC \in 0..MaxCells :
         /\ \E e \in [1..nE -> EcsInputs], c \in [1..nC -> CellInputs] :
              objects = e \o c
         /\ ecs_objects = Ids(0, nE)
         /\ cell_objects = Ids(nE, nC)
         /\ all_objects = Ids(0, nE) \o Ids(nE, nC)
    /\ pc = "step6"
    /\ i = 1
    /\ ecs_min = ZeroVec
    /\ ecs_max = ZeroVec
    /\ scaling_factor = One
    /\ ecs_center = ZeroVec
    /\ bound = {}
    /\ snap = <<>>
    /\ script = "pulling"
    /\ active = 0
    /\ modifiers = [id \in DOMAIN objects |-> <<>>]
    /\ point_cache = <<>>
    /\ keyframes = {}
    /\ curves = <<>>
    /\ constraints = [id \in DOMAIN objects |-> <<>>]
    /\ scene = [frame_start |-> 1, frame_end |-> 250, frame_current |-> 1]
    /\ ops = <<>>

NormalizeAgain ==
    /\ pc = "step7"
    /\ Len(snap) = 1
    /\ pc' = "step6"
    /\ \E evaluated \in BOOLEAN :
         objects' = IF evaluated THEN view_layer_update(objects) ELSE objects
    /\ UNCHANGED <<lists, i, step6_vars, later_vars>>

NextNormalize ==
    \/ Step6
    \/ ReadBoundBox
    \/ ComputeScalingFactor
    \/ Rescale
    \/ ComputeCenter
    \/ Shift
    \/ NormalizeAgain

SpecNormalize == InitNormalize /\ [][NextNormalize]_vars

(***************************************************************************)
(* Vocabulary of the properties.                                           *)
(***************************************************************************)
\* step 6 has ended (the script stands before step 7)
Done == pc = "step7"

\* the objects as they were when the latest application of step 6 began
prior == snap[Len(snap)]

\* the ECS bounding box recomputed from the scale and location the objects
\* have now: world corner = location + scale * local corner
Recomputed(objs) == BoundingBox(Group(view_layer_update(objs)))

AllPositive(size) == \A a \in Axes : Lt(Zero, size[a])

ZeroTranslations(group) ==
    \A k \in 1..Len(group) : group[k].location = ZeroVec

C3_EmptyGroupMutatesNothing ==
    (Done /\ ecs_objects = <<>>)
        => /\ objects = prior
           /\ \A id \in DOMAIN objects :
                /\ objects[id].scale = VScale(prior[id].scale, One)
                /\ objects[id].location = VSub(prior[id].location, ZeroVec)

C3_Witness ==
    /\ Done
    /\ ecs_objects = <<>>
    /\ \E k \in 1..Len(cell_objects) :
         objects[cell_objects[k]].location # ZeroVec

(***************************************************************************)
(* C4: with a non-empty ECS group whose smallest bounding-box size is <= 0 *)
(* (one flat axis is enough) the scaling factor is exactly 1, nothing is   *)
(* divided, no error is raised and every object keeps its scale; the       *)
(* factor is 1 / min_dimension only when min_dimension > 0.                *)
(***************************************************************************)
C4_DegenerateBoxKeepsScale ==
    /\ pc # "ZeroDivisionError"
    /\ (pc \in {"rescale", "shift", "step7"} /\ ecs_objects # <<>>)
         => LET m == min_dimension(BoundingBox(Group(prior)))
            IN  IF Lt(Zero, m)
                THEN scaling_factor = Div(One, m)
                ELSE /\ scaling_factor = One
                     /\ \A id \in DOMAIN objects :
                          objects[id].scale = prior[id].scale

C4_Witness ==
    /\ Done
    /\ ecs_objects # <<>>
    /\ cell_objects # <<>>
    /\ LET size == ecs_size(BoundingBox(Group(prior)))
       IN  /\ Min3(size[1], size[2], size[3]) = Zero
           /\ \E a \in Axes : Lt(Zero, size[a])

(***************************************************************************)
(* C5: in one run of step 6 every object of all_objects, ECS or cell, has  *)
(* its scale multiplied on all three axes by the one scaling_factor and    *)
(* its location reduced by the one centre vector; none is skipped.         *)
(***************************************************************************)
C5_SameFactorAndOffsetForAll ==
    (Done /\ ecs_objects # <<>>)
        => /\ \A k \in 1..Len(all_objects) :
                LET id == all_objects[k]
                IN  /\ objects[id].scale =
                           VScale(prior[id].scale, scaling_factor)
                    /\ objects[id].location =
                           VSub(prior[id].location, ecs_center)
           /\ \A id \in DOMAIN objects :
                \E k \in 1..Len(all_objects) : all_objects[k] = id

C5_Witness ==
    /\ Done
    /\ ecs_objects # <<>>
    /\ cell_objects # <<>>
    /\ scaling_factor # One
    /\ \A a \in Axes : ecs_center[a] # Zero
    /\ objects[cell_objects[1]] # prior[cell_objects[1]]

(***************************************************************************)
(* C6: the scaling factor and the centre offset are a function of the ECS  *)
(* objects alone, and so are the transforms step 6 leaves the ECS objects  *)
(* with: no cell object, whatever its number, corners, scale or location,  *)
(* enters them.                                                            *)
(***************************************************************************)
C6_CellsDoNotEnter ==
    (Done /\ ecs_objects # <<>>)
        => LET group == Group(prior)
               ext == BoundingBox(group)
               f == ScalingFactor(min_dimension(ext))
               c == VScale(Midpoint(ext), f)
           IN  /\ scaling_factor = f
               /\ ecs_center = c
               /\ Group(objects) =
                      [k \in 1..Len(group) |->
                          [group[k] EXCEPT !.scale = VScale(@, f),
                                           !.location = VSub(@, c)]]

C6_Witness ==
    /\ Done
    /\ ecs_objects # <<>>
    /\ cell_objects # <<>>
    /\ LET everything == [k \in 1..Len(all_objects) |-> prior[all_objects[k]]]
       IN  BoundingBox(everything) # BoundingBox(Group(prior))

(***************************************************************************)
(* C7: the three phases of step 6 are strictly ordered: no object is       *)
(* mutated while the ECS corners are being read, no location changes       *)
(* before every object of all_objects has been rescaled, and the centre    *)
(* comes from the min/max captured before any mutation, which are never    *)
(* computed again from the mutated objects.                                *)
(***************************************************************************)
C7_PhasesAreOrdered ==
    /\ pc = "extent" => objects = prior
    /\ (pc = "extent" /\ i > Len(ecs_objects))
         => Extent(ecs_min, ecs_max) = BoundingBox(Group(prior))
    /\ pc = "rescale"
         => \A id \in DOMAIN objects :
              objects[id].location = prior[id].location
    /\ pc = "shift"
         => \A k \in 1..Len(all_objects) :
              objects[all_objects[k]].scale =
                  VScale(prior[all_objects[k]].scale, scaling_factor)
    /\ (pc \in {"rescale", "shift", "step7"} /\ ecs_objects # <<>>)
         => Extent(ecs_min, ecs_max) = BoundingBox(Group(prior))
    /\ (pc \in {"shift", "step7"} /\ ecs_objects # <<>>)
         => ecs_center =
              VScale(Midpoint(BoundingBox(Group(prior))), scaling_factor)

C7_Witness ==
    /\ pc = "shift"
    /\ i > 1
    /\ scaling_factor # One
    /\ objects[all_objects[1]].location # prior[all_objects[1]].location
    /\ Recomputed(objects) # BoundingBox(Group(prior))
    /\ Midpoint(Recomputed(objects)) # ecs_center

(***************************************************************************)
(* C8 as stated: applying step 6 a second time does not leave the scales   *)
(* and locations the first application produced.                           *)
(***************************************************************************)
C8_TwiceDiffersFromOnce ==
    (Done /\ Len(snap) = 2 /\ ecs_objects # <<>>
          /\ AllPositive(ecs_size(BoundingBox(Group(snap[1])))))
        => objects # snap[2]

(***************************************************************************)
(* C8 as amended: when the second application reads the already-normalized *)
(* objects (the host has evaluated the scene since the first), step 6 is   *)
(* idempotent on every group whose ECS objects had zero translation before *)
(* the first application (and on the empty group): it finds the box        *)
(* already centred with smallest size 1 (or flat) and applies factor 1 and *)
(* offset 0.  When it reads the matrices from before the first application *)
(* it applies the first application's factor and offset once more.         *)
(***************************************************************************)
C8_IdempotentWithoutTranslation ==
    (Done /\ Len(snap) = 2)
        => /\ (ZeroTranslations(Group(snap[1]))
                  /\ snap[2] = view_layer_update(snap[2]))
                => /\ objects = snap[2]
                   /\ ecs_objects # <<>>
                        => scaling_factor = One /\ ecs_center = ZeroVec
           /\ (ecs_objects # <<>>
                  /\ \A id \in DOMAIN snap[2] :
                        snap[2][id].matrix_world = snap[1][id].matrix_world)
                => \A id \in DOMAIN objects :
                     /\ snap[2][id].scale =
                            VScale(snap[1][id].scale, scaling_factor)
                     /\ objects[id].scale =
                            VScale(snap[2][id].scale, scaling_factor)
                     /\ snap[2][id].location =
                            VSub(snap[1][id].location, ecs_center)
                     /\ objects[id].location =
                            VSub(snap[2][id].location, ecs_center)

C8_Witness ==
    /\ Done
    /\ Len(snap) = 2
    /\ ecs_objects # <<>>
    /\ cell_objects # <<>>
    /\ ZeroTranslations(Group(snap[1]))
    /\ AllPositive(ecs_size(BoundingBox(Group(snap[1]))))
    /\ \A id \in DOMAIN objects :
         /\ snap[2][id].scale # snap[1][id].scale
         /\ snap[2][id].location # snap[1][id].location
    /\ snap[2] = view_layer_update(snap[2])
    /\ objects = snap[2]

\* a second application that does change the scene although it read
\* evaluated matrices: an ECS object had a translation
C8_TwiceCanDiffer ==
    /\ Done
    /\ Len(snap) = 2
    /\ snap[2] = view_layer_update(snap[2])
    /\ objects # snap[2]

\* a second application that read the matrices from before the first and
\* rescaled and shifted the objects once more
C8_StaleRepeats ==
    /\ Done
    /\ Len(snap) = 2
    /\ ZeroTranslations(Group(snap[1]))
    /\ snap[2] # view_layer_update(snap[2])
    /\ scaling_factor = Frac(1, 2)
    /\ \A id \in DOMAIN objects :
         /\ objects[id].scale = VScale(snap[1][id].scale, Frac(1, 4))
         /\ objects[id].location # snap[2][id].location

(***************************************************************************)
(* C9: for one ECS object with zero translation and unit scale whose box   *)
(* has positive sizes (a, b, c), the factor is 1 / min(a, b, c) and the    *)
(* sizes after step 6 are (a, b, c) * factor: the ratios between the axes  *)
(* are kept and every size is >= 1.  The 2 x 4 x 8 box gets factor 1/2,    *)
(* sizes (1, 2, 4), and is centred at the origin.                          *)
(***************************************************************************)
C9_SingleBoxScenario ==
    (Done /\ Len(ecs_objects) = 1
          /\ prior[ecs_objects[1]].location = ZeroVec
          /\ prior[ecs_objects[1]].scale = Vec(1, 1, 1)
          /\ AllPositive(ecs_size(BoundingBox(Group(prior)))))
        => LET abc == ecs_size(BoundingBox(Group(prior)))
               after == Recomputed(objects)
           IN  /\ scaling_factor = Div(One, Min3(abc[1], abc[2], abc[3]))
               /\ ecs_size(after) = VScale(abc, scaling_factor)
               /\ \A a, b \in Axes :
                    Mul(ecs_size(after)[a], abc[b]) =
                        Mul(ecs_size(after)[b], abc[a])
               /\ \A a \in Axes : ~Lt(ecs_size(after)[a], One)
               /\ prior[ecs_objects[1]].bound_box = Box248
                    => /\ scaling_factor = Frac(1, 2)
                       /\ ecs_size(after) = Vec(1, 2, 4)
                       /\ Midpoint(after) = ZeroVec

C9_Witness ==
    /\ Done
    /\ Len(ecs_objects) = 1
    /\ prior[ecs_objects[1]] = Object(ZeroVec, Vec(1, 1, 1), Box248)
    /\ scaling_factor = Frac(1, 2)
    /\ objects[ecs_objects[1]].location = <<Frac(-1, 2), Num(-1), Num(-2)>>

\* C10: group membership is fixed at import.  Once the two import loops are
\* over, all_objects is the ECS objects followed by the cell objects, every
\* imported object is in all_objects and in exactly one of ecs_objects and
\* cell_objects, no step of any script from step 6 on changes any of the
\* three lists, and the steps of the normalization change nothing but
\* object scales and locations: bound_box and every other part of the scene
\* stay as they were.
C10_MembershipIsFixed ==
    [][ /\ (pc \notin {"step4", "step5"} =>
              /\ all_objects' = all_objects
              /\ ecs_objects' = ecs_objects
              /\ cell_objects' = cell_objects)
        /\ (pc' \notin {"step4", "step5"} =>
              /\ all_objects' = ecs_objects' \o cell_objects'
              /\ \A id \in DOMAIN objects' :
                    (script' = "falling" /\ id = 1)
                    \/ /\ \E k \in DOMAIN all_objects' : all_objects'[k] = id
                       /\ (\E k \in DOMAIN ecs_objects' :
                               ecs_objects'[k] = id)
                          # (\E k \in DOMAIN cell_objects' :
                               cell_objects'[k] = id))
        /\ (pc \in {"step6", "extent", "rescale", "shift"} =>
              /\ DOMAIN objects' = DOMAIN objects
              /\ \A id \in DOMAIN objects :
                    objects'[id].bound_box = objects[id].bound_box
              /\ later_vars' = later_vars)
      ]_vars

\* a script has run to its end with objects of both groups, and the
\* normalization has rescaled and moved them
C10_Witness ==
    /\ pc = "end"
    /\ ecs_objects # <<>>
    /\ cell_objects # <<>>
    /\ scaling_factor = Frac(1, 2)
    /\ \E id \in DOMAIN snap[1] :
          /\ objects[id].scale # snap[1][id].scale
          /\ objects[id].location # snap[1][id].location

C13_PathRunsTenfoldOver100Frames ==
    (script = "follow" /\ pc \in {"step8", "step9", "frames", "free_bake",
                                  "cache", "bake", "end"})
        => \A k \in 1..Len(cell_objects) :
             LET initial == snap[1][cell_objects[k]].location
                 normalized == objects[cell_objects[k]].location
             IN  /\ Len(curves) = Len(cell_objects)
                 /\ curves[k][1] \in {initial, normalized}
                 /\ curves[k][2] =
                        <<Mul(curves[k][1][1], Num(10)),
                          Mul(curves[k][1][2], Num(10)), curves[k][1][3]>>
                 /\ [id |-> cell_objects[k], data_path |-> "offset_factor",
                     frame |-> 1, value |-> Zero] \in keyframes
                 /\ [id |-> cell_objects[k], data_path |-> "offset_factor",
                     frame |-> 100, value |-> One] \in keyframes

\* the parts of C13 taken one at a time: the path starts at the cell's
\* location; the path ends at ten times its start in x and y; the second
\* key is at frame 100
C13_PathStartsAtLocation ==
    (script = "follow" /\ pc = "end")
        => \A k \in 1..Len(cell_objects) :
             curves[k][1] = objects[cell_objects[k]].location

C13_SecondKeyAt100 ==
    (script = "follow" /\ pc = "end")
        => \A k \in 1..Len(cell_objects) :
             \E key \in keyframes :
                key.id = cell_objects[k] /\ key.frame = 100

(***************************************************************************)
(* C14: in pulling.py every cell gets exactly two location keyframes, at   *)
(* frame 1 the location step 6 left it with and at frame 200 that location *)
(* with x and y multiplied by 10 and the same z; ECS objects get no        *)
(* keyframe; after step 7 (and until the bake) every cell stands at its    *)
(* frame-200 value.                                                        *)
(***************************************************************************)
C14_TwoLocationKeysPerCell ==
    (script = "pulling" /\ pc \in {"step8", "step9", "frames", "free_bake",
                                   "cache", "bake", "end"})
        => /\ \A k \in 1..Len(cell_objects) :
                LET id == cell_objects[k]
                    left == VSub(snap[1][id].location,
                                 IF ecs_objects # <<>> THEN ecs_center
                                 ELSE ZeroVec)
                    pulled == <<Mul(left[1], Num(10)), Mul(left[2], Num(10)),
                                left[3]>>
                IN  /\ {key \in keyframes : key.id = id} =
                           {[id |-> id, data_path |-> "location",
                             frame |-> 1, value |-> left],
                            [id |-> id, data_path |-> "location",
                             frame |-> 200, value |-> pulled]}
                    /\ pc # "end" => objects[id].location = pulled
           /\ \A k \in 1..Len(ecs_objects) :
                /\ \A key \in keyframes : key.id # ecs_objects[k]
                /\ objects[ecs_objects[k]].location =
                       VSub(snap[1][ecs_objects[k]].location, ecs_center)

C14_Witness ==
    /\ script = "pulling"
    /\ pc = "step8"
    /\ ecs_objects # <<>>
    /\ Len(cell_objects) = 2
    /\ Cardinality(keyframes) = 4
    /\ \A k \in 1..2 :
         /\ objects[cell_objects[k]].location[1] # Zero
         /\ objects[cell_objects[k]].location[3] # Zero

(***************************************************************************)
(* C15: in follow.py and pulling.py every ECS object gets exactly one      *)
(* Collision modifier and no soft-body modifier, every cell exactly one    *)
(* soft-body modifier and no Collision modifier, and the lookup            *)
(* obj.modifiers["Softbody"] of the cache loop never fails; in falling.py  *)
(* every imported object gets a soft-body modifier and the plane has the   *)
(* only Collision modifier.                                                *)
(***************************************************************************)
C15_PhysicsRoles ==
    /\ pc # "KeyError"
    /\ pc \in {"frames", "free_bake", "cache", "bake", "end"}
         => LET Count(id, name) ==
                    Cardinality({m \in DOMAIN modifiers[id] :
                                    modifiers[id][m] = name})
            IN  IF script = "falling"
                THEN /\ \A k \in 1..Len(all_objects) :
                          /\ Count(all_objects[k], "Softbody") = 1
                          /\ Count(all_objects[k], "Collision") = 0
                     /\ \A id \in DOMAIN objects :
                          Count(id, "Collision") > 0 => id = 1
                     /\ modifiers[1] = <<"Collision">>
                ELSE /\ \A k \in 1..Len(ecs_objects) :
                          /\ Count(ecs_objects[k], "Collision") = 1
                          /\ Count(ecs_objects[k], "Softbody") = 0
                     /\ \A k \in 1..Len(cell_objects) :
                          /\ Count(cell_objects[k], "Softbody") = 1
                          /\ Count(cell_objects[k], "Collision") = 0

C15_Witness ==
    /\ pc = "bake"
    /\ script = "pulling"
    /\ Len(ecs_objects) = 2
    /\ Len(cell_objects) = 2
    /\ modifiers[ecs_objects[2]] = <<"Collision">>
    /\ modifiers[cell_objects[2]] = <<"Softbody">>
    /\ point_cache[cell_objects[2]].frame_end = 200

(***************************************************************************)
(* C16: in falling.py, once step 7 is over, the location of every object   *)
(* of all_objects lies in [-2, 2] x [-2, 2] x [1, 2], above the plane at   *)
(* z = 0, whatever centre step 6 subtracted, and the object still has the  *)
(* scale step 6 gave it.                                                   *)
(***************************************************************************)
C16_LocationsAreDrawn ==
    (script = "falling" /\ pc \in {"step8", "frames", "free_bake", "cache",
                                   "bake", "end"})
        => /\ \A k \in 1..Len(all_objects) :
                LET obj == objects[all_objects[k]]
                    before == snap[1][all_objects[k]]
                IN  /\ ~Lt(obj.location[1], Num(-2))
                    /\ ~Lt(Num(2), obj.location[1])
                    /\ ~Lt(obj.location[2], Num(-2))
                    /\ ~Lt(Num(2), obj.location[2])
                    /\ ~Lt(obj.location[3], Num(1))
                    /\ ~Lt(Num(2), obj.location[3])
                    /\ Lt(Zero, obj.location[3])
                    /\ obj.scale =
                           (IF ecs_objects # <<>>
                            THEN [a \in Axes |->
                                     Mul(before.scale[a], scaling_factor)]
                            ELSE before.scale)
           /\ objects[1].location = ZeroVec

C16_Witness ==
    /\ script = "falling"
    /\ pc = "bake"
    /\ ecs_objects # <<>>
    /\ cell_objects # <<>>
    /\ scaling_factor = Frac(1, 2)
    /\ \A a \in Axes : ecs_center[a] # Zero
    /\ objects[ecs_objects[1]].location = Vec(-2, -2, 1)
    /\ objects[cell_objects[1]].location = Vec(2, 2, 2)
    /\ objects[cell_objects[1]].scale = <<Frac(1, 2), Frac(1, 2), Frac(1, 2)>>

====
